---- MODULE Spec2Model ----
(***************************************************************************)
(* State-machine model of homework.py: the poll loop of main() with        *)
(* check_tokens, get_api_answer, check_response, parse_status and          *)
(* send_message.  The message literals of the source are Cyrillic; the     *)
(* module language takes ASCII strings only, so every literal is rendered  *)
(* in English with the same placeholders in the same places.               *)
(***************************************************************************)
EXTENDS Integers, Sequences, FiniteSets, TLC

\* ------------------------------------------------------------- bounds
\* Timestamps (time.time() at startup, current_date of a response) range
\* over 0..MaxDate; a homeworks list holds at most MaxRecords records.
MaxDate == 2
MaxRecords == 2

\* ---------------------------------------------------------- constants
RETRY_PERIOD == 600
HTTP_OK == 200
HTTP_INTERNAL_SERVER_ERROR == 500
ENDPOINT == "https://practicum.yandex.ru/api/user_api/homework_statuses/"

HOMEWORK_VERDICTS ==
    [approved |-> "Work checked: the reviewer liked everything. Hooray!",
     reviewing |-> "Work taken for review by the reviewer.",
     rejected |-> "Work checked: the reviewer has remarks."]

\* ------------------------------------------------- decoded JSON values
JNull == [t |-> "null"]
JInt(n) == [t |-> "int", i |-> n]
JStr(s) == [t |-> "str", s |-> s]
JList(items) == [t |-> "list", items |-> items]
JDict(d) == [t |-> "dict", d |-> d]

EmptyDict == [k \in {} |-> JNull]

\* A dict holding key k when opt = <<v>> and nothing when opt = <<>>.
Field(k, opt) == IF opt = <<>> THEN EmptyDict ELSE (k :> opt[1])

\* type(x).__name__
TypeName(j) ==
    IF j.t = "null" THEN "NoneType" ELSE j.t

\* dict.get(key): None when the key is absent.
Get(j, key) == IF key \in DOMAIN j.d THEN j.d[key] ELSE JNull

\* Python truthiness of a decoded value.
Truthy(j) ==
    IF j.t = "null" THEN FALSE
    ELSE IF j.t = "int" THEN j.i # 0
    ELSE IF j.t = "str" THEN j.s # ""
    ELSE IF j.t = "list" THEN j.items # <<>>
    ELSE DOMAIN j.d # {}

\* ------------------------------------------------ message templates
Quote(s) == "'" \o s \o "'"

ParamsStr(timestamp) == "{'from_date': " \o ToString(timestamp) \o "}"
HeadersStr(token) == "{'Authorization': 'OAuth " \o token \o "'}"

HOMEWORK_STATUS_CHANGED(homework_name, verdict) ==
    "Status of work \"" \o homework_name \o "\" changed. " \o verdict
MISSING_ENV_VARS(missing_vars) ==
    "Required environment variables are missing: " \o missing_vars
API_ENDPOINT_UNAVAILABLE(endpoint, status_code, params, headers) ==
    "Endpoint " \o endpoint \o " is unavailable. Response code: "
    \o ToString(status_code) \o ". Request parameters: " \o params
    \o ", headers: " \o headers
API_ERROR_RESPONSE(error_info, endpoint, params, headers) ==
    "API returned an error: " \o error_info \o ". Endpoint: " \o endpoint
    \o ", parameters: " \o params \o ", headers: " \o headers
API_REQUEST_ERROR(error, endpoint, params, headers) ==
    "Error while requesting the API: " \o error \o ". Endpoint: " \o endpoint
    \o ", parameters: " \o params \o ", headers: " \o headers
JSON_DECODE_ERROR(error, endpoint, params, headers) ==
    "JSON decoding error: " \o error \o ". Endpoint: " \o endpoint
    \o ", parameters: " \o params \o ", headers: " \o headers
API_RESPONSE_TYPE_ERROR(type_name) ==
    "API response must be a dict, got " \o type_name
MISSING_HOMEWORKS_KEY == "API response has no key \"homeworks\""
HOMEWORKS_TYPE_ERROR(type_name) ==
    "Value of key \"homeworks\" must be a list, got " \o type_name
MISSING_KEY_ERROR(key) == "API response has no key \"" \o key \o "\""
UNKNOWN_STATUS_ERROR(status) == "Unknown work status: " \o status
CONNECTION_ERROR(error) == "Connection error while requesting the API: " \o error
TIMEOUT_ERROR(error) == "API response wait time exceeded: " \o error
HTTP_ERROR(error) == "HTTP error while requesting the API: " \o error
API_RESPONSE_ERROR(error) == "Error in the API response: " \o error
KEY_ACCESS_ERROR(error) == "Error accessing a key in the data: " \o error
TYPE_ERROR(error) == "Data type error: " \o error
UNEXPECTED_ERROR(error) == "Unexpected error: " \o error

\* ------------------------------------------------------- exceptions
\* The classes an exception is an instance of (its own and its bases).
\* requests.exceptions.JSONDecodeError derives from both RequestException
\* and ValueError; json.JSONDecodeError (what older versions of the HTTP
\* library let through) derives from ValueError only.
Bases(cls) ==
    IF cls \in {"ConnectionError", "Timeout", "HTTPError"}
    THEN {cls, "RequestException", "Exception"}
    ELSE IF cls = "requests.JSONDecodeError"
    THEN {cls, "RequestException", "ValueError", "Exception"}
    ELSE IF cls = "json.JSONDecodeError"
    THEN {cls, "ValueError", "Exception"}
    ELSE {cls, "Exception"}

IsInstance(exc, cls) == cls \in Bases(exc.cls)

Raise(cls, msg) == [raised |-> TRUE, cls |-> cls, msg |-> msg, val |-> JNull]
Return(val) == [raised |-> FALSE, cls |-> "", msg |-> "", val |-> val]

\* str(error): a KeyError prints the repr of its argument.
Str(exc) == IF exc.cls = "KeyError" THEN Quote(exc.msg) ELSE exc.msg

\* -------------------------------------------------- the environment
\* os.getenv(name): unset (None), set to the empty string, or set.
EnvValues == {[set |-> FALSE, v |-> ""], [set |-> TRUE, v |-> ""],
              [set |-> TRUE, v |-> "tok"]}

\* bool(value) of an environment value.
EnvTruthy(e) == e.set /\ e.v # ""

\* What the review API can answer to one GET.
Names == {"lab1", "lab2"}
StatusValues == DOMAIN HOMEWORK_VERDICTS \cup {"lost"}

Opt(S) == {<<>>} \cup {<<x>> : x \in S}

RecordDicts ==
    {JDict(Field("homework_name", n) @@ Field("status", s)) :
        n \in Opt({JStr(x) : x \in Names}),
        s \in Opt({JStr(x) : x \in StatusValues})}
FirstRecords == RecordDicts \cup {JInt(7)}
TailRecords ==
    {JDict(("homework_name" :> JStr("lab2")) @@ ("status" :> JStr("rejected"))),
     JInt(7)}
Tails == UNION {[1..k -> TailRecords] : k \in 0..(MaxRecords - 1)}
HomeworkLists == {<<>>} \cup {<<f>> \o t : f \in FirstRecords, t \in Tails}

Dates == 0..MaxDate

NormalPayloads ==
    {JDict(Field("homeworks", h) @@ Field("current_date", d)) :
        h \in Opt({JStr("not a list")} \cup {JList(l) : l \in HomeworkLists}),
        d \in Opt({JNull} \cup {JInt(x) : x \in Dates})}
WellFormedDict ==
    ("homeworks" :>
        JList(<<JDict(("homework_name" :> JStr("lab1"))
                      @@ ("status" :> JStr("approved")))>>))
    @@ ("current_date" :> JInt(MaxDate))
ErrorPayloads ==
    {JDict(Field("code", c) @@ Field("error", e) @@ rest) :
        c \in Opt({JStr("not_authenticated")}),
        e \in Opt({JStr("Internal server error")}),
        rest \in {EmptyDict, WellFormedDict}}
    \ {JDict(EmptyDict), JDict(WellFormedDict)}
Payloads == NormalPayloads \cup ErrorPayloads \cup {JList(<<>>), JNull}

\* requests.get either raises or returns a response; response.json()
\* either raises a decode error or returns the decoded payload.
HttpOutcomes ==
    {[kind |-> "raise", cls |-> "ConnectionError", text |-> "Network is unreachable"],
     [kind |-> "raise", cls |-> "Timeout", text |-> "Read timed out"],
     [kind |-> "response", status_code |-> HTTP_INTERNAL_SERVER_ERROR,
      decodes |-> FALSE, cls |-> "json.JSONDecodeError", json |-> JNull]}
    \cup {[kind |-> "response", status_code |-> HTTP_OK, decodes |-> FALSE,
           cls |-> c, json |-> JNull] :
            c \in {"requests.JSONDecodeError", "json.JSONDecodeError"}}
    \cup {[kind |-> "response", status_code |-> HTTP_OK, decodes |-> TRUE,
           cls |-> "", json |-> p] : p \in Payloads}

\* bot.send_message either returns or raises.
BotOutcomes == {"ok", "ApiTelegramException", "ConnectionError"}

\* ------------------------------------------------------ check_tokens
TokenNames == <<"PRACTICUM_TOKEN", "TELEGRAM_TOKEN", "TELEGRAM_CHAT_ID">>

\* The names whose value is falsy, in the order of the list.
missing_tokens(env) ==
    SelectSeq(TokenNames, LAMBDA name : ~EnvTruthy(env[name]))

RECURSIVE JoinQuoted(_)
JoinQuoted(names) ==
    IF names = <<>> THEN ""
    ELSE IF Len(names) = 1 THEN Quote(names[1])
    ELSE Quote(names[1]) \o ", " \o JoinQuoted(Tail(names))

\* Mutant: only an unset variable counts as missing, an empty one passes.
check_tokens_unset_only(env) ==
    IF \E i \in 1..Len(TokenNames) : ~env[TokenNames[i]].set
    THEN Raise("ValueError", MISSING_ENV_VARS("[...]"))
    ELSE Return(JNull)

check_tokens(env) ==
    IF missing_tokens(env) # <<>>
    THEN Raise("ValueError",
               MISSING_ENV_VARS("[" \o JoinQuoted(missing_tokens(env)) \o "]"))
    ELSE Return(JNull)

\* ---------------------------------------------------- get_api_answer
\* The body of the try block: what it returns or raises.
\* Mutant: a payload that carries homeworks is returned even when it has a
\* code or error key.
get_api_answer_try_lenient(params, headers, http) ==
    IF http.kind = "raise" THEN Raise(http.cls, http.text)
    ELSE IF http.status_code # HTTP_OK
    THEN Raise("HTTPError",
               API_ENDPOINT_UNAVAILABLE(ENDPOINT, http.status_code, params, headers))
    ELSE IF ~http.decodes
    THEN Raise(http.cls, "Expecting value: line 1 column 1 (char 0)")
    ELSE LET json_response == http.json IN
         IF json_response.t = "null"
         THEN Raise("TypeError", "argument of type 'NoneType' is not iterable")
         ELSE IF json_response.t = "dict"
                 /\ "homeworks" \notin DOMAIN json_response.d
                 /\ ("code" \in DOMAIN json_response.d
                     \/ "error" \in DOMAIN json_response.d)
         THEN LET error_info ==
                      IF Truthy(Get(json_response, "code"))
                      THEN Get(json_response, "code")
                      ELSE Get(json_response, "error")
              IN Raise("APIError",
                       API_ERROR_RESPONSE(error_info.s, ENDPOINT, params, headers))
         ELSE Return(json_response)

get_api_answer_try(params, headers, http) ==
    IF http.kind = "raise" THEN Raise(http.cls, http.text)
    ELSE IF http.status_code # HTTP_OK
    THEN Raise("HTTPError",
               API_ENDPOINT_UNAVAILABLE(ENDPOINT, http.status_code, params, headers))
    ELSE IF ~http.decodes
    THEN Raise(http.cls, "Expecting value: line 1 column 1 (char 0)")
    ELSE LET json_response == http.json IN
         IF json_response.t = "null"
         THEN Raise("TypeError", "argument of type 'NoneType' is not iterable")
         ELSE IF json_response.t = "dict"
                 /\ ("code" \in DOMAIN json_response.d
                     \/ "error" \in DOMAIN json_response.d)
         THEN LET error_info ==
                      IF Truthy(Get(json_response, "code"))
                      THEN Get(json_response, "code")
                      ELSE Get(json_response, "error")
              IN Raise("APIError",
                       API_ERROR_RESPONSE(error_info.s, ENDPOINT, params, headers))
         ELSE Return(json_response)

get_api_answer(timestamp, token, http) ==
    LET params == ParamsStr(timestamp)
        headers == HeadersStr(token)
        r == get_api_answer_try(params, headers, http)
    IN IF r.raised /\ IsInstance(r, "RequestException")
       THEN Raise("APIError",
                  API_REQUEST_ERROR(Str(r), ENDPOINT, params, headers))
       ELSE IF r.raised /\ IsInstance(r, "ValueError")
       THEN Raise("ValueError",
                  JSON_DECODE_ERROR(Str(r), ENDPOINT, params, headers))
       ELSE r

\* ---------------------------------------------------- check_response
check_response(response) ==
    IF response.t # "dict"
    THEN Raise("TypeError", API_RESPONSE_TYPE_ERROR(TypeName(response)))
    ELSE IF "homeworks" \notin DOMAIN response.d
    THEN Raise("KeyError", MISSING_HOMEWORKS_KEY)
    ELSE IF response.d["homeworks"].t # "list"
    THEN Raise("TypeError",
               HOMEWORKS_TYPE_ERROR(TypeName(response.d["homeworks"])))
    ELSE Return(response.d["homeworks"])

\* ------------------------------------------------------ parse_status
\* Mutant: an unknown status is rendered with the status itself as verdict.
parse_status_lenient(homework) ==
    IF homework.t # "dict"
    THEN Raise("TypeError",
               "argument of type '" \o TypeName(homework) \o "' is not iterable")
    ELSE IF "homework_name" \notin DOMAIN homework.d
    THEN Raise("KeyError", MISSING_KEY_ERROR("homework_name"))
    ELSE IF "status" \notin DOMAIN homework.d
    THEN Raise("KeyError", MISSING_KEY_ERROR("status"))
    ELSE LET status == homework.d["status"].s IN
         Return(JStr(HOMEWORK_STATUS_CHANGED(
                         homework.d["homework_name"].s,
                         IF status \in DOMAIN HOMEWORK_VERDICTS
                         THEN HOMEWORK_VERDICTS[status] ELSE status)))

\* Mutant: the template is filled with the raw status, not its verdict.
parse_status_raw_status(homework) ==
    IF homework.t # "dict"
    THEN Raise("TypeError",
               "argument of type '" \o TypeName(homework) \o "' is not iterable")
    ELSE IF "homework_name" \notin DOMAIN homework.d
    THEN Raise("KeyError", MISSING_KEY_ERROR("homework_name"))
    ELSE IF "status" \notin DOMAIN homework.d
    THEN Raise("KeyError", MISSING_KEY_ERROR("status"))
    ELSE LET status == homework.d["status"].s IN
         IF status \notin DOMAIN HOMEWORK_VERDICTS
         THEN Raise("ValueError", UNKNOWN_STATUS_ERROR(status))
         ELSE Return(JStr(HOMEWORK_STATUS_CHANGED(
                              homework.d["homework_name"].s, status)))

parse_status(homework) ==
    IF homework.t # "dict"
    THEN Raise("TypeError",
               "argument of type '" \o TypeName(homework) \o "' is not iterable")
    ELSE IF "homework_name" \notin DOMAIN homework.d
    THEN Raise("KeyError", MISSING_KEY_ERROR("homework_name"))
    ELSE IF "status" \notin DOMAIN homework.d
    THEN Raise("KeyError", MISSING_KEY_ERROR("status"))
    ELSE LET status == homework.d["status"].s IN
         IF status \notin DOMAIN HOMEWORK_VERDICTS
         THEN Raise("ValueError", UNKNOWN_STATUS_ERROR(status))
         ELSE Return(JStr(HOMEWORK_STATUS_CHANGED(
                              homework.d["homework_name"].s,
                              HOMEWORK_VERDICTS[status])))

\* ------------------------------------------------------ send_message
\* Mutant: only the chat library's own exception is caught.
send_message_narrow(outcome) ==
    IF outcome = "ok"
    THEN [returned |-> TRUE, propagated |-> FALSE]
    ELSE IF outcome = "ApiTelegramException"
    THEN [returned |-> FALSE, propagated |-> FALSE]
    ELSE [returned |-> FALSE, propagated |-> TRUE]

\* The value send_message returns, and whether an exception leaves it,
\* for one outcome of bot.send_message: every Exception is caught.
send_message(outcome) ==
    IF outcome = "ok"
    THEN [returned |-> TRUE, propagated |-> FALSE]
    ELSE [returned |-> FALSE, propagated |-> FALSE]

\* -------------------------------------------------------------- main
\* Mutant: the loop has no catch-all clause.
except_clauses_no_catch_all ==
    <<"ConnectionError", "Timeout", "HTTPError", "APIError", "KeyError",
      "TypeError">>

\* The except clauses of the loop, in the order they are written.
except_clauses ==
    <<"ConnectionError", "Timeout", "HTTPError", "APIError", "KeyError",
      "TypeError", "Exception">>

\* The first clause that catches exc; "uncaught" when none does.
handler(exc) ==
    LET hits == SelectSeq(except_clauses, LAMBDA cls : IsInstance(exc, cls))
    IN IF hits = <<>> THEN "uncaught" ELSE hits[1]

\* error_msg as the clause formats it.
error_msg(clause, exc) ==
    IF clause = "ConnectionError" THEN CONNECTION_ERROR(Str(exc))
    ELSE IF clause = "Timeout" THEN TIMEOUT_ERROR(Str(exc))
    ELSE IF clause = "HTTPError" THEN HTTP_ERROR(Str(exc))
    ELSE IF clause = "APIError" THEN API_RESPONSE_ERROR(Str(exc))
    ELSE IF clause = "KeyError" THEN KEY_ACCESS_ERROR(Str(exc))
    ELSE IF clause = "TypeError" THEN TYPE_ERROR(Str(exc))
    ELSE UNEXPECTED_ERROR(Str(exc))

\* Where the try block stands when it first waits for the outside world
\* again (the sleep, or the chat call), and what it has assigned by then.
Step(outcome, exc, new_timestamp, message, timestamp) ==
    [outcome |-> outcome, exc |-> exc, new_timestamp |-> new_timestamp,
     message |-> message, timestamp |-> timestamp]

Failed(exc, timestamp) ==
    Step("error", exc, JNull, error_msg(handler(exc), exc), timestamp)

\* Mutant: the cursor is assigned as soon as current_date is read, before
\* the first record is rendered.
main_try_eager(timestamp, token, http) ==
    LET response == get_api_answer(timestamp, token, http) IN
    IF response.raised THEN Failed(response, timestamp)
    ELSE
    LET homeworks == check_response(response.val) IN
    IF homeworks.raised THEN Failed(homeworks, timestamp)
    ELSE
    LET new_timestamp == Get(response.val, "current_date") IN
    IF new_timestamp.t = "null"
    THEN Step("missing_date", Return(JNull), new_timestamp, "", timestamp)
    ELSE IF homeworks.val.items # <<>>
    THEN LET message == parse_status(homeworks.val.items[1]) IN
         IF message.raised THEN Failed(message, new_timestamp.i)
         ELSE Step("status", Return(JNull), new_timestamp, message.val.s,
                   timestamp)
    ELSE Step("empty", Return(JNull), new_timestamp, "", new_timestamp.i)

\* Mutant: an empty record list leaves the cursor where it was.
main_try_keep_on_empty(timestamp, token, http) ==
    LET response == get_api_answer(timestamp, token, http) IN
    IF response.raised THEN Failed(response, timestamp)
    ELSE
    LET homeworks == check_response(response.val) IN
    IF homeworks.raised THEN Failed(homeworks, timestamp)
    ELSE
    LET new_timestamp == Get(response.val, "current_date") IN
    IF new_timestamp.t = "null"
    THEN Step("missing_date", Return(JNull), new_timestamp, "", timestamp)
    ELSE IF homeworks.val.items # <<>>
    THEN LET message == parse_status(homeworks.val.items[1]) IN
         IF message.raised THEN Failed(message, timestamp)
         ELSE Step("status", Return(JNull), new_timestamp, message.val.s,
                   timestamp)
    ELSE Step("empty", Return(JNull), new_timestamp, "", timestamp)

\* Mutant: the last record of the list is rendered, not the first.
main_try_last_record(timestamp, token, http) ==
    LET response == get_api_answer(timestamp, token, http) IN
    IF response.raised THEN Failed(response, timestamp)
    ELSE
    LET homeworks == check_response(response.val) IN
    IF homeworks.raised THEN Failed(homeworks, timestamp)
    ELSE
    LET new_timestamp == Get(response.val, "current_date") IN
    IF new_timestamp.t = "null"
    THEN Step("missing_date", Return(JNull), new_timestamp, "", timestamp)
    ELSE IF homeworks.val.items # <<>>
    THEN LET message ==
                 parse_status(homeworks.val.items[Len(homeworks.val.items)])
         IN
         IF message.raised THEN Failed(message, timestamp)
         ELSE Step("status", Return(JNull), new_timestamp, message.val.s,
                   timestamp)
    ELSE Step("empty", Return(JNull), new_timestamp, "", new_timestamp.i)

main_try(timestamp, token, http) ==
    LET response == get_api_answer(timestamp, token, http) IN
    IF response.raised THEN Failed(response, timestamp)
    ELSE
    LET homeworks == check_response(response.val) IN
    IF homeworks.raised THEN Failed(homeworks, timestamp)
    ELSE
    LET new_timestamp == Get(response.val, "current_date") IN
    IF new_timestamp.t = "null"
    THEN Step("missing_date", Return(JNull), new_timestamp, "", timestamp)
    ELSE IF homeworks.val.items # <<>>
    THEN LET message == parse_status(homeworks.val.items[1]) IN
         IF message.raised THEN Failed(message, timestamp)
         ELSE Step("status", Return(JNull), new_timestamp, message.val.s,
                   timestamp)
    ELSE Step("empty", Return(JNull), new_timestamp, "", new_timestamp.i)

\* Mutant: the cursor advances whether or not the message was delivered.
after_send_always(timestamp, new_timestamp, delivered) == new_timestamp.i

\* Mutant: the cursor is left alone after a delivery.
after_send_never(timestamp, new_timestamp, delivered) == timestamp

\* Mutant: the test of the delivery is inverted.
after_send_inverted(timestamp, new_timestamp, delivered) ==
    IF delivered THEN timestamp ELSE new_timestamp.i

\* The cursor after send_message has returned for a status message.
after_send(timestamp, new_timestamp, delivered) ==
    IF delivered THEN new_timestamp.i ELSE timestamp

\* Mutant: the APIError clause logs the error and does not send it.
notifying_clauses_no_api ==
    {"ConnectionError", "Timeout", "HTTPError", "KeyError", "TypeError",
     "Exception"}

\* Mutant: the KeyError clause logs the error and does not send it.
notifying_clauses_no_key ==
    {"ConnectionError", "Timeout", "HTTPError", "APIError", "TypeError",
     "Exception"}

\* The except clauses that end in send_message(bot, error_msg): all do.
notifying_clauses ==
    {"ConnectionError", "Timeout", "HTTPError", "APIError", "KeyError",
     "TypeError", "Exception"}

\* Where main stands after the try block and the except clause.
try_pc(outcome, clause) ==
    IF outcome = "missing_date" THEN "sleep203"
    ELSE IF outcome = "empty" THEN "sleep249"
    ELSE IF outcome = "status" THEN "send_status"
    ELSE IF clause = "uncaught" THEN "crashed"
    ELSE IF clause \in notifying_clauses THEN "send_error"
    ELSE "sleep249"

\* Mutant: line 203 is not followed by continue, so the cycle sleeps again
\* at line 249.
sleep_seconds_no_continue(at) ==
    IF at = "sleep203" THEN RETRY_PERIOD + RETRY_PERIOD ELSE RETRY_PERIOD

\* What the loop sleeps at line 203 (followed by continue) or line 249.
sleep_seconds(at) == RETRY_PERIOD

\* ------------------------------------------------------------- state
VARIABLES
    env,            \* the three configuration globals
    pc,             \* where main stands
    timestamp,      \* the poll cursor of main
    http,           \* what the API answered in the current cycle
    outcome,        \* how the try block of the current cycle went
    clause,         \* the except clause that caught the cycle's error
    new_timestamp,  \* response.get('current_date') of the current cycle
    message,        \* the text handed to send_message in the current cycle
    send_result,    \* what the last send_message call returned
    calls,          \* the chat calls of the current cycle
    slept,          \* seconds slept since the last fetch
    cycle_ts,       \* the cursor the current cycle fetched with
    fetches,        \* the fetches of the current cycle
    pending,        \* delivered status messages since the cursor was assigned
    prev_error,     \* error_msg of the previous cycle, "" when it had none
    prev_delivered, \* whether that error_msg was delivered
    watch,          \* an error_msg an observer follows, "" when none
    phase,          \* 1: watch was seen, 2: a cycle has succeeded since
    blessed         \* the startup time and the dates of qualifying answers

vars == <<env, pc, timestamp, http, outcome, clause, new_timestamp, message,
          send_result, calls, slept, cycle_ts, fetches, pending, prev_error,
          prev_delivered, watch, phase, blessed>>

\* The notes an observer keeps beside the program; no step reads them.
notes == <<prev_error, prev_delivered, watch, phase, blessed>>

NoHttp == [kind |-> "none"]
Sleeps == {"sleep203", "sleep249"}

\* ------------------------------------------ what a cycle was given
\* The predicates below read the answer of the API itself (http), not
\* what the code made of it.
Answered == http # NoHttp /\ http.kind = "response"
Decoded == Answered /\ http.status_code = HTTP_OK /\ http.decodes

\* A response get_api_answer and check_response accept.
ValidResponse ==
    /\ Decoded
    /\ http.json.t = "dict"
    /\ "code" \notin DOMAIN http.json.d
    /\ "error" \notin DOMAIN http.json.d
    /\ "homeworks" \in DOMAIN http.json.d
    /\ http.json.d["homeworks"].t = "list"

HasDate ==
    /\ "current_date" \in DOMAIN http.json.d
    /\ http.json.d["current_date"].t = "int"
CurrentDate == http.json.d["current_date"].i
Records == http.json.d["homeworks"].items

HasFields(record) ==
    /\ record.t = "dict"
    /\ "homework_name" \in DOMAIN record.d
    /\ "status" \in DOMAIN record.d
Known(record) == record.d["status"].s \in {"approved", "reviewing", "rejected"}

\* The first record is one parse_status renders.
FirstRenders ==
    Records # <<>> /\ HasFields(Records[1]) /\ Known(Records[1])

\* The cycle has run to its sleep.
CycleOver == pc \in Sleeps
Delivered == calls # <<>> /\ calls[1].returned

\* The answer is one the cursor may be taken from: valid, dated, and
\* either without records or with a first record rendered and delivered.
Qualifies ==
    /\ ValidResponse /\ HasDate
    /\ Records = <<>> \/ (FirstRenders /\ Delivered)

\* A successful full cycle.
Succeeded == CycleOver /\ Qualifies


Init ==
    /\ env \in [{TokenNames[i] : i \in 1..Len(TokenNames)} -> EnvValues]
    /\ pc = "check_tokens"
    /\ timestamp = 0
    /\ http = NoHttp
    /\ outcome = "none"
    /\ clause = "none"
    /\ new_timestamp = JNull
    /\ message = ""
    /\ send_result = FALSE
    /\ calls = <<>>
    /\ slept = 0
    /\ cycle_ts = 0
    /\ fetches = 0
    /\ pending = 0
    /\ prev_error = ""
    /\ prev_delivered = FALSE
    /\ watch = ""
    /\ phase = 0
    /\ blessed = {}

\* Lines 190-193: check_tokens, the bot, the first cursor.  The TeleBot
\* constructor is the chat library's and is taken to return.
StartupStep(noted) ==
    /\ pc = "check_tokens"
    /\ IF check_tokens(env).raised
       THEN /\ pc' = "exit"
            /\ UNCHANGED <<timestamp, cycle_ts, blessed>>
       ELSE /\ pc' = "poll"
            /\ \E now \in Dates :
                /\ timestamp' = now
                /\ cycle_ts' = now
                /\ blessed' = IF noted THEN {now} ELSE blessed
    /\ UNCHANGED <<env, http, outcome, clause, new_timestamp, message,
                   send_result, calls, slept, fetches, pending, prev_error,
                   prev_delivered, watch, phase>>

Startup == StartupStep(FALSE)

\* Lines 198-207 and 217-247 up to the call of send_message: one fetch,
\* the validation, the rendering of the first record, the except clause.
Poll ==
    /\ pc = "poll"
    /\ \E answer \in HttpOutcomes :
        LET r == main_try(timestamp, env["PRACTICUM_TOKEN"].v, answer) IN
        /\ http' = answer
        /\ outcome' = r.outcome
        /\ clause' = IF r.outcome = "error" THEN handler(r.exc) ELSE "none"
        /\ new_timestamp' = r.new_timestamp
        /\ message' = r.message
        /\ timestamp' = r.timestamp
        /\ pending' = IF r.outcome = "empty" THEN 0 ELSE pending
        /\ pc' = try_pc(r.outcome,
                        IF r.outcome = "error" THEN handler(r.exc) ELSE "none")
    /\ slept' = 0
    /\ fetches' = fetches + 1
    /\ UNCHANGED <<env, send_result, calls, cycle_ts>>
    /\ UNCHANGED notes

\* Lines 94-105, called at line 208 or from an except clause.
SendMessage ==
    /\ pc \in {"send_status", "send_error"}
    /\ \E bot \in BotOutcomes :
        LET r == send_message(bot) IN
        /\ calls' = Append(calls, [message |-> message, bot |-> bot,
                                   returned |-> r.returned])
        /\ send_result' = r.returned
        /\ pending' = IF pc = "send_status" /\ r.returned
                      THEN pending + 1 ELSE pending
        /\ pc' = IF r.propagated THEN "crashed"
                 ELSE IF pc = "send_status" THEN "after_send"
                 ELSE "sleep249"
    /\ UNCHANGED <<env, timestamp, http, outcome, clause, new_timestamp,
                   message, slept, cycle_ts, fetches>>
    /\ UNCHANGED notes

\* Lines 208-216: the branch on what send_message returned.
AfterSend ==
    /\ pc = "after_send"
    /\ timestamp' = after_send(timestamp, new_timestamp, send_result)
    /\ pending' = IF send_result /\ timestamp' = new_timestamp.i
                  THEN 0 ELSE pending
    /\ pc' = "sleep249"
    /\ UNCHANGED <<env, http, outcome, clause, new_timestamp, message,
                   send_result, calls, slept, cycle_ts, fetches>>
    /\ UNCHANGED notes

\* Line 203 or line 249: time.sleep(RETRY_PERIOD), then back to line 196.
\* The locals of the finished cycle are dead from here on (each is assigned
\* again before it is read), so the next cycle starts with them blank.
\* kept names the notes the observer takes of the finished cycle.
SleepStep(kept) ==
    /\ pc \in Sleeps
    /\ slept' = slept + sleep_seconds(pc)
    /\ pc' = "poll"
    /\ http' = NoHttp
    /\ outcome' = "none"
    /\ clause' = "none"
    /\ new_timestamp' = JNull
    /\ message' = ""
    /\ send_result' = FALSE
    /\ calls' = <<>>
    /\ fetches' = 0
    /\ cycle_ts' = timestamp
    /\ prev_error' =
        IF "errors" \in kept /\ outcome = "error" THEN message ELSE ""
    /\ prev_delivered' =
        ("errors" \in kept /\ outcome = "error" /\ Delivered)
    /\ IF "recovery" \in kept
       THEN \/ /\ phase = 0 /\ outcome = "error"
               /\ watch' = message /\ phase' = 1
            \/ /\ phase = 1 /\ Succeeded
               /\ phase' = 2 /\ UNCHANGED watch
            \/ /\ ~(phase = 1 /\ Succeeded)
               /\ UNCHANGED <<watch, phase>>
       ELSE UNCHANGED <<watch, phase>>
    /\ blessed' = IF "provenance" \in kept /\ Qualifies
                  THEN blessed \cup {CurrentDate} ELSE blessed
    /\ UNCHANGED <<env, timestamp, pending>>

Sleep == SleepStep({"errors"})

\* The same step without the record of the cycle's error: prev_error is
\* an observer's note that no step of the program reads.
SleepUnobserved == SleepStep({})

Next == Startup \/ Poll \/ SendMessage \/ AfterSend \/ Sleep

Spec == Init /\ [][Next]_vars

\* The loop runs on its own: nothing but the process being killed stops a
\* step that is enabled.  Progress does not depend on prev_error, so the
\* fair specification leaves it unrecorded.
LoopNext == Startup \/ Poll \/ SendMessage \/ AfterSend \/ SleepUnobserved

FairSpec == Init /\ [][LoopNext]_vars /\ WF_vars(LoopNext)

\* The program beside an observer who follows one error_msg through a
\* recovery.
SleepRecovery == SleepStep({"recovery"})
RecoveryNext == Startup \/ Poll \/ SendMessage \/ AfterSend \/ SleepRecovery

RecoverySpec == Init /\ [][RecoveryNext]_vars

\* The program beside an observer who collects the values the cursor may
\* take.
StartupNoted == StartupStep(TRUE)
SleepProvenance == SleepStep({"provenance"})
ProvenanceNext ==
    StartupNoted \/ Poll \/ SendMessage \/ AfterSend \/ SleepProvenance

ProvenanceSpec == Init /\ [][ProvenanceNext]_vars

TypeOK ==
    /\ pc \in {"check_tokens", "exit", "poll", "send_status", "send_error",
               "after_send", "sleep203", "sleep249", "crashed"}
    /\ timestamp \in Dates
    /\ Len(calls) <= 1

\* ------------------------------------------------------------ claims

\* C1: the poll cursor never decreases within a run: after each cycle it
\* is greater than or equal to its value before that cycle, whatever
\* integer current_date values the responses carry.
C1_CursorNeverDecreases == CycleOver => timestamp >= cycle_ts

\* C2: when a cycle fails with the same formatted error string as the
\* cycle before it, the second cycle makes no send attempt.
C2_RepeatedErrorSentOnce ==
    (CycleOver /\ outcome = "error" /\ message = prev_error) => calls = <<>>

\* C3 as stated: in a cycle with a valid response, a current_date and a
\* first record that renders, the cursor changes if and only if
\* send_message returned true.
C3_CursorChangesIffDelivered ==
    (CycleOver /\ ValidResponse /\ HasDate /\ FirstRenders)
        => ((timestamp # cycle_ts) <=> Delivered)

SleepKeepsCursor == pc \in Sleeps => (pc' = "poll" /\ timestamp' = timestamp)

C3_AssignedIffDelivered ==
    (CycleOver /\ ValidResponse /\ HasDate /\ FirstRenders)
        => /\ Len(calls) = 1
           /\ timestamp = IF Delivered THEN CurrentDate ELSE cycle_ts

\* C3 as amended: in such a cycle the cursor is set to the response's
\* current_date if send_message returned true and is left as it was if
\* it returned false; the sleep does not touch it, so after a failed
\* delivery the next cycle fetches with the same from_date.
C3_CursorSetIffDelivered ==
    /\ []C3_AssignedIffDelivered
    /\ [][SleepKeepsCursor]_vars

C3_Witness ==
    /\ CycleOver /\ ValidResponse /\ HasDate /\ FirstRenders
    /\ ~Delivered /\ calls # <<>> /\ CurrentDate # cycle_ts

\* C4: a cycle in which get_api_answer, check_response or parse_status
\* fails leaves the cursor as it was at the start of the cycle, whether
\* or not the error notification was delivered.
CycleFails ==
    \/ http # NoHttp /\ ~ValidResponse
    \/ ValidResponse /\ HasDate /\ Records # <<>> /\ ~FirstRenders

C4_FailedCycleKeepsCursor ==
    (pc \in Sleeps \cup {"send_error"} /\ CycleFails)
        => (outcome = "error" /\ timestamp = cycle_ts)

C4_Witness ==
    /\ CycleOver /\ ValidResponse /\ HasDate /\ Records # <<>>
    /\ ~FirstRenders /\ CurrentDate # cycle_ts /\ Delivered

\* C5: for a valid response with an empty record list no notification
\* attempt is made in the cycle, and the cursor after the cycle is the
\* response's current_date when it is present and unchanged when absent.
C5_EmptyListNoSend ==
    (CycleOver /\ ValidResponse /\ Records = <<>>)
        => /\ calls = <<>>
           /\ timestamp = IF HasDate THEN CurrentDate ELSE cycle_ts

C5_Witness ==
    /\ CycleOver /\ ValidResponse /\ Records = <<>>
    /\ HasDate /\ CurrentDate # cycle_ts

\* C6 as stated: for a record whose status is outside the three verdicts
\* parse_status fails with the unknown-status error and the notifier is
\* not called at all in that cycle.
UnknownFirst ==
    /\ ValidResponse /\ HasDate /\ Records # <<>>
    /\ HasFields(Records[1]) /\ ~Known(Records[1])

C6_UnknownStatusNoCall ==
    (CycleOver /\ UnknownFirst)
        => (outcome = "error" /\ clause = "Exception" /\ calls = <<>>)

\* C6 as amended: for a record that has both fields and whose status is
\* outside the three verdicts parse_status fails with the unknown-status
\* error and no status message is sent in that cycle: the one notifier
\* call of the cycle carries the error diagnostic.
C6_UnknownStatusDiagnosticOnly ==
    (CycleOver /\ UnknownFirst)
        => /\ outcome = "error" /\ clause = "Exception"
           /\ Len(calls) = 1
           /\ calls[1].message =
                "Unexpected error: Unknown work status: "
                \o Records[1].d["status"].s

C6_Witness == CycleOver /\ UnknownFirst /\ Delivered

\* C7: if one of the three configuration values is missing or empty at
\* startup, main fails in check_tokens before the loop: no fetch and no
\* notifier call ever happens; if all three are present, check_tokens
\* does not fail and the loop is entered.
SomeMissing ==
    \E name \in DOMAIN env : ~env[name].set \/ env[name].v = ""

C7_ConfigGate ==
    /\ SomeMissing =>
        (pc \in {"check_tokens", "exit"} /\ http = NoHttp /\ calls = <<>>)
    /\ (~SomeMissing /\ pc # "check_tokens") => pc # "exit"

C7_Witness ==
    /\ pc = "exit"
    /\ env["TELEGRAM_CHAT_ID"] = [set |-> TRUE, v |-> ""]
    /\ EnvTruthy(env["PRACTICUM_TOKEN"]) /\ EnvTruthy(env["TELEGRAM_TOKEN"])

\* C8: once the loop is entered no failure of fetch, validation, parsing
\* or notification ends it: every cycle reaches the sleep and the sleep
\* is followed by the next cycle.
InLoop == pc \notin {"check_tokens", "exit"}

C8_LoopNeverEnds ==
    /\ [](InLoop => pc # "crashed")
    /\ [](pc = "poll" => <>(pc \in Sleeps))
    /\ [](pc \in Sleeps => <>(pc = "poll"))

C8_Witness ==
    /\ CycleOver /\ outcome = "error" /\ clause = "Exception"
    /\ calls # <<>> /\ ~calls[1].returned

\* C9: send_message never lets a failure out: it returns true when the
\* chat call succeeded and false when it raised, and it does not touch
\* the cursor.
C9_SendMessageIsolated ==
    /\ pc # "crashed"
    /\ \A i \in DOMAIN calls : calls[i].returned = (calls[i].bot = "ok")
    /\ calls # <<>> => send_result = calls[Len(calls)].returned
    /\ pc = "after_send" => (Len(calls) = 1 /\ timestamp = cycle_ts)
    /\ (CycleOver /\ outcome = "error") =>
            (Len(calls) = 1 /\ timestamp = cycle_ts)

C9_Witness ==
    /\ pc = "after_send" /\ calls # <<>>
    /\ calls[1].bot = "ConnectionError" /\ ~send_result
    /\ new_timestamp # JInt(timestamp)

\* C10: for a valid response with current_date whose first record has a
\* name and one of the three statuses, the notifier receives the template
\* message with that record's name and the verdict of its status, and
\* when the delivery succeeds the cursor becomes the current_date.
Lab1Approved ==
    JDict(("homework_name" :> JStr("lab1")) @@ ("status" :> JStr("approved")))

C10_StatusMessage ==
    (CycleOver /\ ValidResponse /\ HasDate /\ FirstRenders)
        => /\ Len(calls) = 1
           /\ calls[1].message =
                HOMEWORK_STATUS_CHANGED(Records[1].d["homework_name"].s,
                    HOMEWORK_VERDICTS[Records[1].d["status"].s])
           /\ Records[1] = Lab1Approved =>
                calls[1].message =
                    "Status of work \"lab1\" changed. "
                    \o "Work checked: the reviewer liked everything. Hooray!"
           /\ calls[1].returned => timestamp = CurrentDate

C10_Witness ==
    /\ CycleOver /\ ValidResponse /\ HasDate /\ FirstRenders
    /\ Records[1] = Lab1Approved /\ Delivered
    /\ CurrentDate = MaxDate /\ cycle_ts # MaxDate

\* C11: if a cycle fails with error string E, a later cycle completes
\* successfully, and a cycle after that fails with the same string E, a
\* notification attempt for E is made in that later failing cycle.
FailsAgainAfterRecovery ==
    CycleOver /\ outcome = "error" /\ phase = 2 /\ message = watch

C11_RecurrenceReported ==
    FailsAgainAfterRecovery => (Len(calls) = 1 /\ calls[1].message = watch)

C11_Witness ==
    /\ FailsAgainAfterRecovery /\ calls # <<>>
    /\ clause = "APIError" /\ http.kind = "raise"

\* C12: every successful delivery of a status message is followed, in the
\* same cycle and before the next fetch, by the assignment of the cursor
\* to that response's current_date, so no two successful status
\* deliveries occur without a cursor assignment between them.
C12_OneDeliveryPerAssignment ==
    /\ pending <= 1
    /\ pc \in Sleeps \cup {"poll"} => pending = 0
    /\ (CycleOver /\ outcome = "status" /\ Delivered) =>
            timestamp = new_timestamp.i

C12_Witness ==
    /\ CycleOver /\ outcome = "status" /\ Delivered
    /\ pending = 0 /\ timestamp # cycle_ts

\* C13: whenever a valid response has a non-empty record list whose first
\* record renders, a delivery attempt of the rendered status message is
\* made in that same cycle, also when the response has no current_date.
C13_RenderableFirstIsSent ==
    (CycleOver /\ ValidResponse /\ FirstRenders)
        => /\ calls # <<>>
           /\ calls[1].message =
                HOMEWORK_STATUS_CHANGED(Records[1].d["homework_name"].s,
                    HOMEWORK_VERDICTS[Records[1].d["status"].s])

\* C14: each cycle performs exactly one API fetch and at most one notifier
\* call (one status message or one error message, never both), and only
\* the first record of the response affects the cycle: with the records
\* after the first taken away, the notification, the error outcome and
\* the cursor of the cycle are the same.
HasList ==
    /\ Decoded /\ http.json.t = "dict"
    /\ "homeworks" \in DOMAIN http.json.d
    /\ http.json.d["homeworks"].t = "list"

\* The answer of the cycle without the records after the first.
FirstOnly ==
    IF HasList /\ Len(http.json.d["homeworks"].items) > 1
    THEN [http EXCEPT !.json.d["homeworks"].items = <<@[1]>>]
    ELSE http

C14_OneFetchOneCallFirstRecord ==
    CycleOver =>
        LET r == main_try(cycle_ts, env["PRACTICUM_TOKEN"].v, FirstOnly) IN
        /\ fetches = 1
        /\ Len(calls) <= 1
        /\ outcome = r.outcome
        /\ message = r.message
        /\ calls # <<>> => calls[1].message = r.message
        /\ timestamp = IF r.outcome = "status"
                       THEN after_send(cycle_ts, r.new_timestamp, send_result)
                       ELSE r.timestamp

C14_Witness ==
    /\ CycleOver /\ ValidResponse /\ HasDate /\ FirstRenders
    /\ Len(Records) > 1 /\ Records[2] = JInt(7)
    /\ Delivered /\ timestamp # cycle_ts

\* C15: the loop distinguishes the kinds of fetch failure: a connection
\* failure, a timeout, a non-OK HTTP status and an API-reported error each
\* reach the loop as their own kind and are handled by their own except
\* clause (connection, timeout, HTTP, API-response respectively).
Raised(cls) == http # NoHttp /\ http.kind = "raise" /\ http.cls = cls
ApiReported ==
    /\ Decoded /\ http.json.t = "dict"
    /\ "code" \in DOMAIN http.json.d \/ "error" \in DOMAIN http.json.d

C15_OwnClausePerFetchFailure ==
    CycleOver =>
        /\ Raised("ConnectionError") => clause = "ConnectionError"
        /\ Raised("Timeout") => clause = "Timeout"
        /\ (Answered /\ http.status_code # HTTP_OK) => clause = "HTTPError"
        /\ ApiReported => clause = "APIError"

\* C16: between any two consecutive API fetches the loop sleeps exactly
\* once for the constant retry interval, on every path through a cycle;
\* the missing-current_date path sleeps at line 203 and continues without
\* reaching the sleep of line 249.
MidCycle == pc \in {"send_status", "send_error", "after_send"}

NoSleepBeforeCycleEnds == (MidCycle \/ CycleOver) => slept = 0
SleepPlace ==
    CycleOver =>
        (pc = "sleep203" <=> (ValidResponse /\ ~HasDate))
FetchLeadsToSleep ==
    /\ pc = "poll" => pc' \in {"send_status", "send_error"} \cup Sleeps
    /\ MidCycle => pc' \in {"after_send"} \cup Sleeps
OneSleepThenFetch ==
    CycleOver => (pc' = "poll" /\ slept' = RETRY_PERIOD)

C16_OneSleepBetweenFetches ==
    /\ [](NoSleepBeforeCycleEnds /\ SleepPlace)
    /\ [][FetchLeadsToSleep]_vars
    /\ [][OneSleepThenFetch]_vars

C16_Witness ==
    pc = "poll" /\ slept = RETRY_PERIOD /\ fetches = 0 /\ prev_error # ""

\* C17: a decoded payload with a top-level code or error key is always
\* treated as a server-reported failure: get_api_answer fails with the API
\* error, no record of the payload is rendered or sent as a status
\* message and the cursor is unchanged, even when the payload also holds
\* homeworks and current_date.
ReportedInfo ==
    IF "code" \in DOMAIN http.json.d
    THEN http.json.d["code"].s ELSE http.json.d["error"].s

C17_ReportedErrorWins ==
    (CycleOver /\ ApiReported)
        => /\ outcome = "error" /\ clause = "APIError"
           /\ message =
                "Error in the API response: API returned an error: "
                \o ReportedInfo \o ". Endpoint: " \o ENDPOINT
                \o ", parameters: {'from_date': " \o ToString(cycle_ts)
                \o "}, headers: {'Authorization': 'OAuth "
                \o env["PRACTICUM_TOKEN"].v \o "'}"
           /\ Len(calls) = 1 /\ calls[1].message = message
           /\ timestamp = cycle_ts

C17_Witness ==
    /\ CycleOver /\ ApiReported /\ Delivered
    /\ "homeworks" \in DOMAIN http.json.d
    /\ "current_date" \in DOMAIN http.json.d
    /\ CurrentDate # cycle_ts

\* C18: an error diagnostic whose delivery failed is not treated as
\* reported: if a cycle fails with error string E and the notifier returns
\* false for it, and the next cycle fails with the same string E, a
\* notification attempt for E is made again in that next cycle.
RepeatsUndelivered ==
    /\ CycleOver /\ outcome = "error"
    /\ message = prev_error /\ ~prev_delivered

C18_UndeliveredErrorResent ==
    RepeatsUndelivered => (Len(calls) = 1 /\ calls[1].message = prev_error)

C18_Witness ==
    RepeatsUndelivered /\ calls # <<>> /\ clause = "KeyError"

\* C19: in every reachable state the cursor is either the startup time or
\* the current_date of a response that passed check_response, carried a
\* non-null current_date, and either had an empty record list or had its
\* first record rendered and successfully delivered; it is never assigned
\* from a response whose cycle ended in an error.
FromThisCycle == IF Qualifies THEN {CurrentDate} ELSE {}

C19_CursorProvenance ==
    InLoop =>
        /\ timestamp \in blessed \cup FromThisCycle
        /\ outcome = "error" => timestamp \in blessed

C19_Witness ==
    /\ pc = "sleep249" /\ outcome = "status" /\ Delivered
    /\ timestamp \notin blessed /\ Cardinality(blessed) > 1

====
